---- MODULE Spec2Model ----
(***************************************************************************)
(* Model of tools/scrape_catalog.py: the catalog crawler of the            *)
(* Estropical product feed.  main() runs discover_idea_urls (bootstrap GET *)
(* of the listing, then PrimeFaces AJAX pagination with a rotating         *)
(* ViewState) and then scrape_idea_page for every discovered URL; every    *)
(* network call goes through fetch_with_retry.                             *)
(*                                                                         *)
(* A URL is the sequence of its "/"-separated segments: the relative href  *)
(* "/en/idea/101/tour" is <<"", "en", "idea", "101", "tour">> and the      *)
(* absolute one starts with the BASE_URL segment instead of "".            *)
(* The server is the environment: every HTTP attempt ends in a 200 with a  *)
(* body, in another status, or in a requests.RequestException.  A step of  *)
(* the model is one HTTP attempt together with the code that runs until    *)
(* the next attempt is due: the rest of fetch_with_retry and, when the     *)
(* call returns, the caller's handling of the result.  The hrefs that      *)
(* re.findall returns for a listing page are consumed one per step, as the *)
(* for loop of collect_links consumes them.                                *)
(*                                                                         *)
(* Besides the crawl (Spec, SpecStop) the module has one specification per *)
(* part that is checked on its own inputs: SpecCollect (collect_links over *)
(* every href form its pattern admits), SpecClassify (infer_region and     *)
(* infer_product_type over slugs and titles, one character per element),   *)
(* SpecPrice (the price loop of scrape_idea_page over lists of candidate   *)
(* strings), SpecImages (main of tools/generate_branded_images.py, run     *)
(* after run on one input) and SpecDownload (download_image of the same    *)
(* file, call after call over every state of its cache files).  Each of    *)
(* them leaves the variables of the others at their idle values.           *)
(***************************************************************************)
EXTENDS Integers, Sequences, FiniteSets, TLC

\* ---- bounds of the model --------------------------------------------------
MaxId == 2
MaxPageLinks == 2
MaxToken == 2
MaxCap == 3
MaxPages == 2
MaxSlugWords == 2
MaxTitleWords == 1
MaxCandidates == 2
MaxProducts == 2
MaxRuns == 2

\* ---- program constants ----------------------------------------------------
MAX_RETRIES == 3
PRICE_FLOOR == 50
ROWS_PER_PAGE == 12
BASE_URL == "https://www.estropical.com"

\* ---- value spaces ---------------------------------------------------------
IdNames == <<"101", "102", "103", "104", "105", "106">>
Ids == {IdNames[n] : n \in 1..MaxId}
Digits == {IdNames[n] : n \in 1..Len(IdNames)}
Langs == {"en"}
Slugs == {"tour"}
NoToken == 0
Tokens == 1..MaxToken
None == "None"
OtherStatuses == {204, 404, 503}

RelHref(l, id, s) == <<"", l, "idea", id, s>>
AbsHref(l, id, s) == <<BASE_URL, l, "idea", id, s>>
\* the hrefs the findall pattern of collect_links can return
Hrefs ==
  {RelHref(l, id, s) : l \in Langs, id \in Ids, s \in Slugs}
    \cup {AbsHref(l, id, s) : l \in Langs, id \in Ids, s \in Slugs}

\* (?:en|es) and [^"]* of the same pattern, for collect_links on its own:
\* per identifier a relative and an absolute href, one in the other language
\* and one with another slug
WideLangs == {"en", "es"}
WideSlugs == {"tour", "viaje"}
WideHrefs ==
  UNION {{RelHref("en", id, "tour"), AbsHref("en", id, "tour"),
          RelHref("es", id, "tour"), AbsHref("en", id, "viaje")} : id \in Ids}

\* no href scanned yet for an identifier
NoHref == [href |-> <<>>, page |-> -1]

NoResp == [status |-> 0]
PageBodies == [status : {200}, token : Tokens \cup {NoToken}]
\* the text that follows the currency prefix in the strings the find_all of
\* scrape_idea_page returns, one character per element
PriceTexts ==
  {<<"9", "9">>, <<"1", ",", "2", "0", "0">>, <<"1", "2", ".", "5">>,
   <<"1", ".", "2", "9", "9", ".", "0">>, <<"7">>}
NoPriceText == <<"-">>
ItemBodies == [status : {200}, price : PriceTexts \cup {NoPriceText}]
\* price: Optional[float] = None
NoPrice == -1
\* the candidates of the price loop: PriceTexts and a price at the floor
CandidateTexts == PriceTexts \cup {<<"5", "0">>}

\* the keyword table of infer_region, in the order of the source
REGION_KEYWORDS ==
  <<[keyword |-> <<"c", "a", "n", "c", "u", "n">>,
     region |-> "Caribe"],
    [keyword |-> <<"c", "a", "n", "c", "ú", "n">>,
     region |-> "Caribe"],
    [keyword |-> <<"p", "u", "n", "t", "a", "-", "c", "a", "n", "a">>,
     region |-> "Caribe"],
    [keyword |-> <<"p", "u", "n", "t", "a", " ", "c", "a", "n", "a">>,
     region |-> "Caribe"],
    [keyword |-> <<"c", "a", "r", "i", "b", "e">>,
     region |-> "Caribe"],
    [keyword |-> <<"m", "i", "a", "m", "i">>,
     region |-> "Norteamérica"],
    [keyword |-> <<"n", "u", "e", "v", "a", "-", "y", "o", "r", "k">>,
     region |-> "Norteamérica"],
    [keyword |-> <<"n", "u", "e", "v", "a", " ", "y", "o", "r", "k">>,
     region |-> "Norteamérica"],
    [keyword |-> <<"n", "e", "w", " ", "y", "o", "r", "k">>,
     region |-> "Norteamérica"],
    [keyword |-> <<"o", "r", "l", "a", "n", "d", "o">>,
     region |-> "Norteamérica"],
    [keyword |-> <<"w", "a", "s", "h", "i", "n", "g", "t", "o", "n">>,
     region |-> "Norteamérica"],
    [keyword |-> <<"e", "s", "t", "a", "d", "o", "s", "-", "u", "n", "i", "d", "o", "s">>,
     region |-> "Norteamérica"],
    [keyword |-> <<"e", "s", "t", "a", "d", "o", "s", " ", "u", "n", "i", "d", "o", "s">>,
     region |-> "Norteamérica"],
    [keyword |-> <<"m", "a", "d", "r", "i", "d">>,
     region |-> "Europa"],
    [keyword |-> <<"b", "a", "r", "c", "e", "l", "o", "n", "a">>,
     region |-> "Europa"],
    [keyword |-> <<"p", "a", "r", "i", "s">>,
     region |-> "Europa"],
    [keyword |-> <<"e", "u", "r", "o", "p", "a">>,
     region |-> "Europa"],
    [keyword |-> <<"b", "u", "e", "n", "o", "s", "-", "a", "i", "r", "e", "s">>,
     region |-> "Sudamérica"],
    [keyword |-> <<"b", "u", "e", "n", "o", "s", " ", "a", "i", "r", "e", "s">>,
     region |-> "Sudamérica"],
    [keyword |-> <<"s", "a", "o", "-", "p", "a", "u", "l", "o">>,
     region |-> "Sudamérica"],
    [keyword |-> <<"s", "ã", "o", " ", "p", "a", "u", "l", "o">>,
     region |-> "Sudamérica"],
    [keyword |-> <<"r", "i", "o", "-", "d", "e", "-", "j", "a", "n", "e", "i", "r", "o">>,
     region |-> "Sudamérica"],
    [keyword |-> <<"s", "a", "n", "t", "i", "a", "g", "o">>,
     region |-> "Sudamérica"],
    [keyword |-> <<"l", "i", "m", "a">>,
     region |-> "Sudamérica"],
    [keyword |-> <<"b", "o", "g", "o", "t", "a">>,
     region |-> "Sudamérica"],
    [keyword |-> <<"b", "o", "g", "o", "t", "á">>,
     region |-> "Sudamérica"],
    [keyword |-> <<"c", "a", "r", "t", "a", "g", "e", "n", "a">>,
     region |-> "Sudamérica"],
    [keyword |-> <<"a", "s", "u", "n", "c", "i", "o", "n">>,
     region |-> "Sudamérica"],
    [keyword |-> <<"a", "s", "u", "n", "c", "i", "ó", "n">>,
     region |-> "Sudamérica"],
    [keyword |-> <<"t", "a", "i", "l", "a", "n", "d", "i", "a">>,
     region |-> "Asia"],
    [keyword |-> <<"b", "a", "n", "g", "k", "o", "k">>,
     region |-> "Asia"],
    [keyword |-> <<"v", "i", "e", "t", "n", "a", "m">>,
     region |-> "Asia"],
    [keyword |-> <<"l", "a", "o", "s">>,
     region |-> "Asia"],
    [keyword |-> <<"j", "a", "p", "o", "n">>,
     region |-> "Asia"],
    [keyword |-> <<"j", "a", "p", "ó", "n">>,
     region |-> "Asia"],
    [keyword |-> <<"t", "o", "k", "i", "o">>,
     region |-> "Asia"],
    [keyword |-> <<"t", "o", "k", "y", "o">>,
     region |-> "Asia"],
    [keyword |-> <<"d", "u", "b", "a", "i">>,
     region |-> "Asia"],
    [keyword |-> <<"c", "o", "r", "e", "a">>,
     region |-> "Asia"],
    [keyword |-> <<"p", "a", "n", "a", "m", "a">>,
     region |-> "Centroamérica"],
    [keyword |-> <<"m", "é", "x", "i", "c", "o">>,
     region |-> "Centroamérica"],
    [keyword |-> <<"m", "e", "x", "i", "c", "o">>,
     region |-> "Centroamérica"]>>

\* the alternatives of the two patterns of infer_product_type
FlightWords ==
  {<<"b", "o", "l", "e", "t", "o">>,
   <<"v", "u", "e", "l", "o">>,
   <<"t", "i", "c", "k", "e", "t">>,
   <<"f", "l", "i", "g", "h", "t">>,
   <<"a", "i", "r", "f", "a", "r", "e">>}

HotelWords ==
  {<<"h", "o", "t", "e", "l">>,
   <<"r", "e", "s", "o", "r", "t">>,
   <<"i", "n", "n">>,
   <<"l", "o", "d", "g", "e">>,
   <<"p", "a", "l", "a", "c", "e">>,
   <<"s", "u", "i", "t", "e", "s">>,
   <<"a", "p", "a", "r", "t", "m", "e", "n", "t">>}

\* str.lower() on the letters a slug or a title is made of
UpperCase ==
  <<"A", "B", "C", "D", "E", "F", "G", "H", "I", "J", "K", "L", "M", "N", "O",
  "P", "Q", "R", "S", "T", "U", "V", "W", "X", "Y", "Z", "Á", "É", "Í", "Ó",
  "Ú", "Ñ", "Ã">>

LowerCase ==
  <<"a", "b", "c", "d", "e", "f", "g", "h", "i", "j", "k", "l", "m", "n", "o",
  "p", "q", "r", "s", "t", "u", "v", "w", "x", "y", "z", "á", "é", "í", "ó",
  "ú", "ñ", "ã">>

\* the characters \w matches once the text is lower-cased
WordChars ==
  {LowerCase[k] : k \in 1..Len(LowerCase)}
    \cup {"0", "1", "2", "3", "4", "5", "6", "7", "8", "9", "_"}

\* words a slug is made of, joined by "-", and words of a title, joined by " "
SlugWords ==
  {<<"m", "a", "d", "r", "i", "d">>,
   <<"c", "l", "i", "m", "a", "t", "e">>,
   <<"h", "o", "t", "e", "l">>,
   <<"v", "u", "e", "l", "o", "s">>,
   <<"n", "e", "w">>}

TitleWords ==
  {<<"Y", "o", "r", "k">>,
   <<"V", "u", "e", "l", "o">>,
   <<"C", "a", "n", "c", "ú", "n">>}

\* ---- generate_branded_images.py ------------------------------------------------
GITHUB_PAGES_BASE == "https://joni-ia-agent.github.io/XML---Data-Feed/images"
\* _photo_cache_key(FALLBACK_PHOTO): the products here match no destination
FallbackKey == "photo-1436491865332-7a61a109cc05"
ImageIds == {IdNames[n] : n \in 1..MaxProducts}
\* a product of the input file: its id, and whether image_link starts with
\* "http"
ProductRecords == [id : ImageIds, image_link : {"", "http"}]
\* the input lists: the ids scrape_catalog writes are distinct (C1)
ProductLists ==
  {ps \in UNION {[1..n -> ProductRecords] : n \in 0..MaxProducts} :
     \A a \in 1..Len(ps) : \A b \in 1..Len(ps) :
       ps[a].id = ps[b].id => a = b}
CacheKeys == {FallbackKey} \cup ImageIds
\* outcome of one use of the network
NetOutcomes == {"ok", "fail"}
\* the state of a cache file: none, one Image.open reads, one it rejects
CacheStates == {"absent", "good", "corrupt"}
\* outcome of the try block of download_image: the image is fetched and
\* saved; urlopen or read raises; the data is not an image; img.save raises
\* and leaves no file, or leaves the part it wrote (Image.save removes a
\* file it created only in later Pillow releases)
DownloadOutcomes == {"ok", "fail", "not_image", "save_fail", "save_partial"}
NoManifestFile == {[id |-> "-", url |-> <<>>]}

\* time.sleep calls of the crawl
NoPause == "none"
PagePause == "page"
BackoffPause == "backoff"
NoPost == [first |-> 0, rows |-> 0, vs |-> NoToken]
NoSummary == [count |-> -1]

VARIABLES
  pc,              \* position of main / discover_idea_urls / fetch_with_retry
  max_ideas,       \* argument of discover_idea_urls
  attempt,         \* loop variable of fetch_with_retry
  returned,        \* last fetch_with_retry call: "Response", "None" or "-"
  post_data,       \* form data of the current pagination request
  viewstate, seen_ids, idea_urls, first,   \* locals of discover_idea_urls
  before,          \* len(idea_urls) before the collect_links of this round
  scanned,         \* hrefs of the current page collect_links has consumed
  main_idea_urls, i, products, summary,    \* locals of main
  \* history of the run, recorded at the network boundary
  nreq,            \* HTTP attempts issued by the current fetch_with_retry call
  waited,          \* seconds slept by the current fetch_with_retry call
  lastStatus,      \* outcome of the last HTTP attempt: status, -1 = exception
  observed,        \* token of the last 200 listing response that had one
  rotated,         \* a paginated response delivered a different token
  absentSeen,      \* a paginated 200 response carried no token
  lastSent,        \* form data of the last POST attempt issued
  obsAtSend,       \* value of observed when that POST was issued
  postsAfterStall, \* POST attempts issued after a round that added no link
  zeroStreak,      \* consecutive pagination rounds that added no link
  pageIds,         \* identifiers present on the listing pages received
  repeats,         \* a listing page repeated an identifier already served
  itemFails,       \* item-detail fetches that ended without a 200
  visited,         \* item URLs a GET attempt was issued for
  pageFailed,      \* a pagination call of fetch_with_retry returned None
  pagesDone,       \* listing pages collect_links has consumed
  callOffsets,     \* offset of every pagination call, in the order sent
  lastPause,       \* the sleep the code has made since the last HTTP attempt
  \* collect_links driven page by page over every href form the pattern admits
  firstSeen,       \* per identifier, the first href scanned and its page
  reseenSame,      \* an identifier came again, other URL, on its first page
  reseenLater,     \* an identifier came again, other URL, on a later page
  \* the classification at the end of scrape_idea_page
  slug, title,     \* last URL segment and page title, one character each
  region, ptype,   \* results of infer_region and infer_product_type
  cl_pc,           \* "region", "type", "ret"; "idle" outside this entry point
  \* the price loop of scrape_idea_page
  candidates,      \* the strings find_all returns, in document order
  pt_k,            \* index of the candidate the for loop is at
  price,           \* local price, in thousandths; NoPrice for None
  pr_pc,           \* "loop", "ret", "raised"; "idle" outside this entry point
  \* tools/generate_branded_images.py, run after run on one input file
  im_pc,           \* "start", "loop", "compose", "done", "crashed"; "idle"
  run,             \* number of the current run of the script
  im_products,     \* data["products"] of the input file
  im_k,            \* index of the product the for loop of main is at
  out_dir,         \* identifiers with an image in OUTPUT_DIR
  cache,           \* per cache key, the state of its file in CACHE_DIR
  fonts,           \* the font files are in FONTS_DIR
  logo_file,       \* the logo is in CACHE_DIR
  logo_cache,      \* the global _logo_cache is not None
  manifest, skipped, generated,     \* locals of main
  source_img,      \* where the source image of the current product is from
  manifest_file,   \* the content of MANIFEST_PATH
  requests,        \* what this run has asked the network for
  written,         \* identifiers whose image this run has saved
  prevDone,        \* the run before this one reached its end
  \* download_image called on its own, call after call
  dl_key,          \* cache key of the last call
  dl_before,       \* state of its cache file when the call began
  dl_net,          \* outcome of the request the call made; "-" without one
  dl_ret,          \* what the call returned: "img" or "None"; "-" before
  dl_requested,    \* the call reached urlopen
  dl_unlinked      \* the call unlinked the cache file

vars == <<pc, max_ideas, attempt, returned, post_data, viewstate, seen_ids,
          idea_urls, first, before, scanned, main_idea_urls, i, products,
          summary,
          nreq, waited, lastStatus, observed, rotated, absentSeen, lastSent,
          obsAtSend, postsAfterStall, zeroStreak, pageIds, repeats, itemFails,
          visited, pageFailed, pagesDone, callOffsets, lastPause,
          firstSeen, reseenSame, reseenLater,
          slug, title, region, ptype, cl_pc,
          candidates, pt_k, price, pr_pc,
          im_pc, run, im_products, im_k, out_dir, cache, fonts, logo_file,
          logo_cache, manifest, skipped, generated, source_img,
          manifest_file, requests, written, prevDone,
          dl_key, dl_before, dl_net, dl_ret, dl_requested, dl_unlinked>>

\* the state of the crawl, and the state the other entry points add to it
crawlVars == <<pc, max_ideas, attempt, returned, post_data, viewstate,
               seen_ids, idea_urls, first, before, scanned, main_idea_urls, i,
               products, summary,
               nreq, waited, lastStatus, observed, rotated, absentSeen,
               lastSent, obsAtSend, postsAfterStall, zeroStreak, pageIds,
               repeats, itemFails, visited, pageFailed, pagesDone,
               callOffsets, lastPause>>
collectHist == <<firstSeen, reseenSame, reseenLater>>
classifyVars == <<slug, title, region, ptype, cl_pc>>
priceVars == <<candidates, pt_k, price, pr_pc>>
imageVars == <<im_pc, run, im_products, im_k, out_dir, cache, fonts,
               logo_file, logo_cache, manifest, skipped, generated,
               source_img, manifest_file, requests, written, prevDone>>
downloadVars == <<dl_key, dl_before, dl_net, dl_ret, dl_requested,
                  dl_unlinked>>
auxVars == <<collectHist, classifyVars, priceVars, imageVars, downloadVars>>

fetchVars == <<attempt, returned, nreq, waited, lastStatus>>
discVars == <<viewstate, seen_ids, idea_urls, first, before, scanned>>
callerVars == <<viewstate, seen_ids, idea_urls, first, before, scanned,
                main_idea_urls, i, products, zeroStreak>>
bodyHist == <<observed, rotated, absentSeen>>
scanHist == <<pageIds, repeats>>
sendHist == <<lastSent, obsAtSend, postsAfterStall, visited, callOffsets>>

FetchPcs == {"boot_fetch", "page_fetch", "item_fetch"}
ScanPcs == {"boot_scan", "page_scan"}

\* ---- pure helpers ---------------------------------------------------------
\* wait = 2 ** attempt
RECURSIVE Pow2(_)
Pow2(n) == IF n = 0 THEN 1 ELSE 2 * Pow2(n - 1)

Take(s, n) == SubSeq(s, 1, IF Len(s) < n THEN Len(s) ELSE n)

\* re.search(r"/idea/(\d+)/", url): scanning from the left, the first "idea"
\* segment that follows a slash and is followed by a digit segment and
\* another slash; k is the segment the scan has reached
RECURSIVE IdeaFrom(_, _)
IdeaFrom(url, k) ==
  IF k + 2 > Len(url) THEN None
  ELSE IF url[k] = "idea" /\ url[k + 1] \in Digits THEN url[k + 1]
  ELSE IdeaFrom(url, k + 1)

extract_idea_id(url) == IdeaFrom(url, 2)

\* the characters [0-9] and [0-9,\.] of the pattern of parse_price
DigitChars == {"0", "1", "2", "5", "7", "9"}
NumberChars == DigitChars \cup {",", "."}

\* ([0-9][0-9,\.]+) matched greedily from the start of text: the length of
\* the longest run of number characters, 0 when the match fails
RECURSIVE RunLen(_, _)
RunLen(text, k) ==
  IF k > Len(text) \/ text[k] \notin NumberChars THEN k - 1
  ELSE RunLen(text, k + 1)

PriceGroup(text) ==
  IF text # <<>> /\ text[1] \in DigitChars /\ RunLen(text, 1) >= 2
  THEN SubSeq(text, 1, RunLen(text, 1))
  ELSE <<>>

\* m.group(1).replace(",", "")
RECURSIVE StripCommas(_)
StripCommas(t) ==
  IF t = <<>> THEN <<>>
  ELSE IF Head(t) = "," THEN StripCommas(Tail(t))
  ELSE <<Head(t)>> \o StripCommas(Tail(t))

RECURSIVE CountDots(_)
CountDots(t) ==
  IF t = <<>> THEN 0
  ELSE (IF Head(t) = "." THEN 1 ELSE 0) + CountDots(Tail(t))

\* float(s) for a string of digits and dots that starts with a digit: a
\* second dot makes it raise ValueError
FloatRaises(t) == CountDots(t) >= 2

\* parse_price: None when the pattern does not match, ValueError when float
\* rejects the matched group, a number otherwise
parse_price(text) ==
  IF PriceGroup(text) = <<>> THEN "None"
  ELSE IF FloatRaises(StripCommas(PriceGroup(text))) THEN "ValueError"
  ELSE "float"

\* scrape_idea_page lets the exception of parse_price through
ScrapeRaises(body) ==
  body.price # NoPriceText /\ parse_price(body.price) = "ValueError"

\* ---- the number parse_price returns -------------------------------------------
DigitSeq == <<"0", "1", "2", "3", "4", "5", "6", "7", "8", "9">>
DigitValue(c) == (CHOOSE k \in 1..Len(DigitSeq) : DigitSeq[k] = c) - 1

\* the integer a string of digits denotes
RECURSIVE IntOf(_)
IntOf(t) ==
  IF t = <<>> THEN 0
  ELSE IntOf(SubSeq(t, 1, Len(t) - 1)) * 10 + DigitValue(t[Len(t)])

\* float(s) in thousandths, for digits with at most one dot and at most three
\* digits after it
FloatMilli(t) ==
  LET dots == {k \in 1..Len(t) : t[k] = "."}
      d == IF dots = {} THEN Len(t) + 1 ELSE CHOOSE k \in dots : TRUE
      whole == SubSeq(t, 1, d - 1)
      frac == Take(SubSeq(t, d + 1, Len(t)) \o <<"0", "0", "0">>, 3)
  IN IntOf(whole) * 1000 + IntOf(frac)

\* the float parse_price returns when it returns one, in thousandths
PriceMilli(text) == FloatMilli(StripCommas(PriceGroup(text)))

\* if p and p > 50
Qualifies(milli) == milli # 0 /\ milli > PRICE_FLOOR * 1000

\* ---- infer_region and infer_product_type -------------------------------------
Lower(c) ==
  LET ks == {k \in 1..Len(UpperCase) : UpperCase[k] = c}
  IN IF ks = {} THEN c ELSE LowerCase[CHOOSE k \in ks : TRUE]

\* text.lower()
LowerText(t) == [k \in 1..Len(t) |-> Lower(t[k])]

\* keyword in lower
Occurs(kw, text) ==
  \E p \in 1..(Len(text) - Len(kw) + 1) :
    SubSeq(text, p, p + Len(kw) - 1) = kw

\* variant: the last matching entry of the table wins
RECURSIVE RegionFromLast(_, _)
RegionFromLast(lower, k) ==
  IF k > Len(REGION_KEYWORDS) THEN "Internacional"
  ELSE LET rest == RegionFromLast(lower, k + 1)
       IN IF rest # "Internacional" THEN rest
          ELSE IF Occurs(REGION_KEYWORDS[k].keyword, lower)
          THEN REGION_KEYWORDS[k].region
          ELSE "Internacional"

\* for keyword, region in REGION_KEYWORDS, from entry k on
RECURSIVE RegionFrom(_, _)
RegionFrom(lower, k) ==
  IF k > Len(REGION_KEYWORDS) THEN "Internacional"
  ELSE IF Occurs(REGION_KEYWORDS[k].keyword, lower)
  THEN REGION_KEYWORDS[k].region
  ELSE RegionFrom(lower, k + 1)

infer_region(text) == RegionFrom(LowerText(text), 1)

IsWordChar(text, p) == p \in 1..Len(text) /\ text[p] \in WordChars

\* \b in front of position p: a word character on exactly one side
Boundary(text, p) == IsWordChar(text, p - 1) # IsWordChar(text, p)

\* \bkw\b matches at position p
WordAt(kw, text, p) ==
  /\ p + Len(kw) - 1 <= Len(text)
  /\ SubSeq(text, p, p + Len(kw) - 1) = kw
  /\ Boundary(text, p)
  /\ Boundary(text, p + Len(kw))

\* re.search of an alternation of \bkw\b
SearchWords(kws, text) ==
  \E p \in 1..Len(text) : \E kw \in kws : WordAt(kw, text, p)

\* variant: the hotel pattern is tried before the flight pattern
infer_product_type_hotel_first(s, t) ==
  LET combined == LowerText(s \o <<" ">> \o t)
  IN IF SearchWords(HotelWords, combined) THEN "Hotel"
     ELSE IF SearchWords(FlightWords, combined) THEN "Vuelo"
     ELSE "Paquete"

infer_product_type(s, t) ==
  LET combined == LowerText(s \o <<" ">> \o t)
  IN IF SearchWords(FlightWords, combined) THEN "Vuelo"
     ELSE IF SearchWords(HotelWords, combined) THEN "Hotel"
     ELSE "Paquete"

\* the slugs and titles of the item pages
RECURSIVE Join(_, _)
Join(ws, sep) ==
  IF Len(ws) = 0 THEN <<>>
  ELSE IF Len(ws) = 1 THEN ws[1]
  ELSE ws[1] \o <<sep>> \o Join(Tail(ws), sep)

WordLists(W, lo, hi) == UNION {[1..n -> W] : n \in lo..hi}
SlugTexts == {Join(ws, "-") : ws \in WordLists(SlugWords, 1, MaxSlugWords)}
TitleTexts == {Join(ws, " ") : ws \in WordLists(TitleWords, 0, MaxTitleWords)}
CandidateLists == WordLists(CandidateTexts, 0, MaxCandidates)

\* ---- generate_branded_images.py: helpers ---------------------------------------
\* public_url = f"{GITHUB_PAGES_BASE}/{pid}.jpg?v=2"
PublicUrl(pid) == <<GITHUB_PAGES_BASE, pid, ".jpg?v=2">>

\* manifest[pid] = public_url
SetEntry(m, pid) ==
  {e \in m : e.id # pid} \cup {[id |-> pid, url |-> PublicUrl(pid)]}

\* variant: the output directory is not consulted
OutputExistsNever(pid, dir) == FALSE

\* out_path.exists()
OutputExists(pid, dir) == pid \in dir

\* variant: the unreadable cache file is left where it is
AfterUnlinkKept(st) == st

\* cache_path.unlink(missing_ok=True) of the except branch
AfterUnlink(st) == "absent"

\* the cache file after the try block of the download, begun with the file
\* in state st
AfterDownload(st, net) ==
  IF net = "ok" THEN "good"
  ELSE IF net = "save_partial" THEN "corrupt"
  ELSE st

\* download_image for a key whose cache file is in state st, the download
\* ending as net: a readable cache file is returned without a request, an
\* unreadable one is unlinked; a download is saved to the cache and
\* returned, and any exception in the try block returns None
download_image(st, net) ==
  IF st = "good"
  THEN [img |-> TRUE, cache |-> "good", requested |-> FALSE,
        unlinked |-> FALSE]
  ELSE LET cleared == IF st = "corrupt" THEN AfterUnlink(st) ELSE st
       IN [img |-> net = "ok",
           cache |-> AfterDownload(cleared, net),
           requested |-> TRUE,
           unlinked |-> st = "corrupt" /\ cleared = "absent"]

\* full = href if href.startswith("http") else BASE_URL + href
FullUrl(href) == IF href[1] # "" THEN href ELSE <<BASE_URL>> \o Tail(href)

\* variant: the seen set is not consulted
IsNewIdIgnoreSeen(idea_id, seen) == idea_id # None

IsNewId(idea_id, seen) == idea_id # None /\ idea_id \notin seen

\* variant: a relative href is marked seen but never queued
collect_link_abs_only(href, seen, urls) ==
  LET idea_id == extract_idea_id(href)
  IN IF idea_id # None /\ idea_id \notin seen
     THEN [seen |-> seen \cup {idea_id},
           urls |-> IF href[1] # "" THEN Append(urls, href) ELSE urls]
     ELSE [seen |-> seen, urls |-> urls]

\* variant: the link is queued but its identifier is not marked seen
collect_link_no_mark(href, seen, urls) ==
  LET idea_id == extract_idea_id(href)
  IN IF idea_id # None /\ idea_id \notin seen
     THEN [seen |-> seen, urls |-> Append(urls, FullUrl(href))]
     ELSE [seen |-> seen, urls |-> urls]

\* variant: a repeated identifier replaces the link queued for it
collect_link_last_wins(href, seen, urls) ==
  LET idea_id == extract_idea_id(href)
  IN IF IsNewId(idea_id, seen)
     THEN [seen |-> seen \cup {idea_id}, urls |-> Append(urls, FullUrl(href))]
     ELSE [seen |-> seen,
           urls |-> [k \in 1..Len(urls) |->
                       IF extract_idea_id(urls[k]) = idea_id
                       THEN FullUrl(href) ELSE urls[k]]]

\* one iteration of the for loop of collect_links
collect_link(href, seen, urls) ==
  LET idea_id == extract_idea_id(href)
  IN IF IsNewId(idea_id, seen)
     THEN [seen |-> seen \cup {idea_id}, urls |-> Append(urls, FullUrl(href))]
     ELSE [seen |-> seen, urls |-> urls]

\* variant: two attempts too many
CanAttemptTooMany(a, retries) == a <= retries + 1

\* variant: the loop gives up one attempt early
CanAttemptTooFew(a, retries) == a < retries - 1

\* for attempt in range(retries)
CanAttempt(a, retries) == a < retries

\* if resp.status_code == 200: return resp
IsSuccess(status) == status = 200

\* variant: every status other than 200 is retried after a backoff
RetryOnStatusAlways(status) == TRUE

\* what fetch_with_retry does with a response whose status is not 200
RetryOnStatus(status) == FALSE

\* variant: the token is overwritten even when the response has none
NextViewstateOverwrite(old, new) == new

\* variant: the token of the bootstrap page is kept for the whole crawl
NextViewstateKeep(old, new) == old

\* if new_vs: viewstate = new_vs.group(1)
NextViewstate(old, new) == IF new # NoToken THEN new ELSE old

\* variant: the loop goes on when the cap is just reached
LoopContinuesAtCap(urls, cap) == Len(urls) <= cap

\* while len(idea_urls) < max_ideas
LoopContinues(urls, cap) == Len(urls) < cap

\* variant: a round that adds nothing does not end the loop
StallNever(added) == FALSE

\* variant: only a negative count ends the loop
StallOnNegative(added) == added < 0

\* if added == 0: break
StallStops(added) == added = 0

\* variant: the offset is not advanced
NextFirstStays(f) == f

\* first += ROWS_PER_PAGE
NextFirst(f) == f + ROWS_PER_PAGE

\* variant: the list is returned without the slice
ReturnedAll(urls, cap) == urls

\* return idea_urls[:max_ideas]
Returned(urls, cap) == Take(urls, cap)

\* main before its first statement
CrawlInit ==
  /\ pc = "boot_fetch"
  /\ max_ideas \in 1..MaxCap
  /\ attempt = 0
  /\ returned = "-"
  /\ post_data = NoPost
  /\ viewstate = NoToken
  /\ seen_ids = {}
  /\ idea_urls = <<>>
  /\ first = 0
  /\ before = 0
  /\ scanned = 0
  /\ main_idea_urls = <<>>
  /\ i = 0
  /\ products = <<>>
  /\ summary = NoSummary
  /\ nreq = 0
  /\ waited = 0
  /\ lastStatus = 0
  /\ observed = NoToken
  /\ rotated = FALSE
  /\ absentSeen = FALSE
  /\ lastSent = NoPost
  /\ obsAtSend = NoToken
  /\ postsAfterStall = 0
  /\ zeroStreak = 0
  /\ pageIds = {}
  /\ repeats = FALSE
  /\ itemFails = 0
  /\ visited = {}
  /\ pageFailed = FALSE
  /\ pagesDone = 0
  /\ callOffsets = <<>>
  /\ lastPause = NoPause

\* no href has been scanned
CollectIdle ==
  /\ firstSeen = [id \in Ids |-> NoHref]
  /\ reseenSame = FALSE
  /\ reseenLater = FALSE

\* scrape_idea_page is not running
ClassifyIdle ==
  /\ slug = <<>>
  /\ title = <<>>
  /\ region = "-"
  /\ ptype = "-"
  /\ cl_pc = "idle"

PriceIdle ==
  /\ candidates = <<>>
  /\ pt_k = 0
  /\ price = NoPrice
  /\ pr_pc = "idle"

\* a fresh checkout: no output, no cache, no fonts, no manifest
ImagesFresh ==
  /\ out_dir = {}
  /\ cache = [key \in CacheKeys |-> "absent"]
  /\ fonts = FALSE
  /\ logo_file = FALSE
  /\ logo_cache = FALSE
  /\ manifest = {}
  /\ skipped = 0
  /\ generated = 0
  /\ source_img = "-"
  /\ manifest_file = NoManifestFile
  /\ requests = {}
  /\ written = {}
  /\ prevDone = FALSE

\* generate_branded_images.py is not running
ImagesIdle ==
  /\ im_pc = "idle"
  /\ run = 0
  /\ im_products = <<>>
  /\ im_k = 0
  /\ ImagesFresh

\* download_image has not been called
DownloadIdle ==
  /\ dl_key = "-"
  /\ dl_before = "-"
  /\ dl_net = "-"
  /\ dl_ret = "-"
  /\ dl_requested = FALSE
  /\ dl_unlinked = FALSE

AuxIdle ==
  /\ CollectIdle
  /\ ClassifyIdle
  /\ PriceIdle
  /\ ImagesIdle
  /\ DownloadIdle

Init ==
  /\ CrawlInit
  /\ AuxIdle

\* ---- discover_idea_urls ---------------------------------------------------
\* main receives the list discover_idea_urls returns and starts its for loop
DiscoverReturns(urls) ==
  /\ main_idea_urls' = Returned(urls, max_ideas)
  /\ i' = 1
  /\ products' = <<>>
  /\ pc' = "for"

\* variant: a page without the ViewState input is accepted
BootstrapFailsOnlyNoResp(r) == r = NoResp

\* if not resp: raise ... / if not vs_input: raise RuntimeError
BootstrapFails(r) == r = NoResp \/ r.token = NoToken

\* after the bootstrap GET has returned r: the ViewState input, then the
\* first collect_links starts
Bootstrap(r) ==
  /\ IF BootstrapFails(r)
     THEN /\ pc' = "failed"
          /\ UNCHANGED discVars
     ELSE /\ viewstate' = r.token
          /\ seen_ids' = {}
          /\ idea_urls' = <<>>
          /\ scanned' = 0
          /\ pc' = "boot_scan"
          /\ UNCHANGED <<first, before>>
  /\ UNCHANGED <<main_idea_urls, i, products, zeroStreak>>

\* the pagination POST was answered with r: the new ViewState,
\* before = len(idea_urls), and collect_links starts
PageAnswered(r) ==
  /\ viewstate' = NextViewstate(viewstate, r.token)
  /\ before' = Len(idea_urls)
  /\ scanned' = 0
  /\ pc' = "page_scan"
  /\ UNCHANGED <<seen_ids, idea_urls, first>>
  /\ UNCHANGED <<main_idea_urls, i, products, zeroStreak>>

\* variant: a failed pagination request raises like a failed bootstrap
PageRoundAborts(r) ==
  IF r = NoResp
  THEN /\ pc' = "failed"
       /\ UNCHANGED discVars
       /\ UNCHANGED <<main_idea_urls, i, products, zeroStreak>>
  ELSE PageAnswered(r)

\* variant: a failed request still advances the offset before the break
PageRoundSkipsPage(r) ==
  IF r = NoResp
  THEN /\ DiscoverReturns(idea_urls)
       /\ first' = NextFirst(first)
       /\ UNCHANGED <<viewstate, seen_ids, idea_urls, before, scanned>>
       /\ UNCHANGED zeroStreak
  ELSE PageAnswered(r)

\* after the pagination POST has returned r: break when it failed
PageRound(r) ==
  IF r = NoResp
  THEN /\ DiscoverReturns(idea_urls)
       /\ UNCHANGED discVars
       /\ UNCHANGED zeroStreak
  ELSE PageAnswered(r)

\* ---- scrape_idea_page and the body of main's for loop ----------------------
\* variant: the new record is put in front of the list
AddRecordFront(recs, rec) == <<rec>> \o recs

\* products.append({...})
AddRecord(recs, rec) == Append(recs, rec)

\* after the detail GET has returned r
ItemDone(r) ==
  /\ IF r = NoResp
     THEN /\ i' = i + 1
          /\ pc' = "for"
          /\ UNCHANGED products
     ELSE IF ScrapeRaises(r)
          THEN /\ pc' = "crashed"
               /\ UNCHANGED <<i, products>>
          ELSE /\ products' = AddRecord(products,
                   [id |-> extract_idea_id(main_idea_urls[i]),
                    link |-> main_idea_urls[i]])
               /\ i' = i + 1
               /\ pc' = "for"
  /\ UNCHANGED <<main_idea_urls, zeroStreak>>
  /\ UNCHANGED discVars

\* the caller of the fetch_with_retry call in progress goes on with result r
Continue(r) ==
  IF pc = "boot_fetch" THEN Bootstrap(r)
  ELSE IF pc = "page_fetch" THEN PageRound(r)
  ELSE ItemDone(r)

\* ---- fetch_with_retry -----------------------------------------------------
\* what every HTTP attempt records, whatever its outcome
Issue ==
  /\ nreq' = nreq + 1
  /\ IF pc = "page_fetch"
     THEN /\ lastSent' = post_data
          /\ obsAtSend' = observed
          /\ postsAfterStall' = IF zeroStreak >= 1 THEN postsAfterStall + 1
                                ELSE postsAfterStall
     ELSE UNCHANGED <<lastSent, obsAtSend, postsAfterStall>>
  /\ callOffsets' = IF pc = "page_fetch" /\ nreq = 0
                    THEN Append(callOffsets, post_data.first)
                    ELSE callOffsets
  /\ IF pc = "item_fetch"
     THEN visited' = visited \cup {main_idea_urls[i]}
     ELSE UNCHANGED visited

\* what a 200 listing response is recorded to have carried
Receive(body) ==
  IF pc = "item_fetch"
  THEN UNCHANGED bodyHist
  ELSE /\ observed' = IF body.token # NoToken THEN body.token ELSE observed
       /\ rotated' = (rotated \/ (pc = "page_fetch" /\ body.token # NoToken
                                    /\ body.token # observed))
       /\ absentSeen' = (absentSeen
                           \/ (pc = "page_fetch" /\ body.token = NoToken))

\* variant: each failure kind is reported by its own value
FailureValueByKind(kind) == kind

\* return None, after a status other than 200 (line 103) and after the
\* loop has run out (line 108)
FailureValue(kind) == None

\* the call ends without a response
ReturnNone ==
  /\ itemFails' = IF pc = "item_fetch" THEN itemFails + 1 ELSE itemFails
  /\ pageFailed' = (pageFailed \/ pc = "page_fetch")
  /\ Continue(NoResp)

\* time.sleep(DELAY_SECONDS) of main
ItemPause == "item"

\* variant: main does not sleep after scrape_idea_page
PauseAfterNoSleep(base, r) == base

\* the sleep in force when the caller has dealt with result r, base being
\* the one in force when the call returned: main sleeps DELAY_SECONDS after
\* every scrape_idea_page that returns
PauseAfter(base, r) ==
  IF pc = "item_fetch" /\ (r = NoResp \/ ~ScrapeRaises(r)) THEN ItemPause
  ELSE base

\* the attempt is answered with status 200: return resp
FetchOk ==
  /\ pc \in FetchPcs
  /\ CanAttempt(attempt, MAX_RETRIES)
  /\ \E body \in (IF pc = "item_fetch" THEN ItemBodies ELSE PageBodies) :
       /\ IsSuccess(body.status)
       /\ Receive(body)
       /\ Continue(body)
       /\ lastPause' = PauseAfter(NoPause, body)
  /\ Issue
  /\ lastStatus' = 200
  /\ returned' = "Response"
  /\ UNCHANGED <<attempt, waited, itemFails, pageFailed, pagesDone>>
  /\ UNCHANGED <<max_ideas, post_data, summary>>
  /\ UNCHANGED scanHist
  /\ UNCHANGED auxVars

\* the attempt is answered with another status: print it, return None
FetchStatus ==
  /\ pc \in FetchPcs
  /\ CanAttempt(attempt, MAX_RETRIES)
  /\ \E st \in OtherStatuses :
       /\ ~IsSuccess(st)
       /\ lastStatus' = st
       /\ IF RetryOnStatus(st)
          THEN /\ waited' = waited + Pow2(attempt)
               /\ attempt' = attempt + 1
               /\ lastPause' = BackoffPause
               /\ UNCHANGED <<pc, returned, itemFails, pageFailed>>
               /\ UNCHANGED callerVars
          ELSE /\ ReturnNone
               /\ returned' = FailureValue("status")
               /\ lastPause' = PauseAfter(NoPause, NoResp)
               /\ UNCHANGED <<attempt, waited>>
  /\ Issue
  /\ UNCHANGED pagesDone
  /\ UNCHANGED bodyHist
  /\ UNCHANGED <<max_ideas, post_data, summary>>
  /\ UNCHANGED scanHist
  /\ UNCHANGED auxVars

\* the attempt raises requests.RequestException: sleep 2 ** attempt, loop
FetchExc ==
  /\ pc \in FetchPcs
  /\ CanAttempt(attempt, MAX_RETRIES)
  /\ lastStatus' = -1
  /\ waited' = waited + Pow2(attempt)
  /\ attempt' = attempt + 1
  /\ lastPause' = BackoffPause
  /\ Issue
  /\ UNCHANGED <<pc, returned, itemFails, pageFailed, pagesDone>>
  /\ UNCHANGED callerVars
  /\ UNCHANGED bodyHist
  /\ UNCHANGED <<max_ideas, post_data, summary>>
  /\ UNCHANGED scanHist
  /\ UNCHANGED auxVars

\* range(retries) is used up: return None
FetchExhausted ==
  /\ pc \in FetchPcs
  /\ ~CanAttempt(attempt, MAX_RETRIES)
  /\ ReturnNone
  /\ returned' = FailureValue("exhausted")
  /\ lastPause' = PauseAfter(lastPause, NoResp)
  /\ UNCHANGED <<attempt, nreq, waited, lastStatus, pagesDone>>
  /\ UNCHANGED bodyHist
  /\ UNCHANGED sendHist
  /\ UNCHANGED <<max_ideas, post_data, summary>>
  /\ UNCHANGED scanHist
  /\ UNCHANGED auxVars

\* a new call of fetch_with_retry
StartFetch ==
  /\ attempt' = 0
  /\ nreq' = 0
  /\ waited' = 0
  /\ lastStatus' = 0
  /\ returned' = "-"

\* ---- collect_links -------------------------------------------------------
\* collect_links takes the next href of the page
ScanHref ==
  /\ pc \in ScanPcs
  /\ scanned < MaxPageLinks
  /\ \E href \in Hrefs :
       LET c == collect_link(href, seen_ids, idea_urls)
       IN /\ seen_ids' = c.seen
          /\ idea_urls' = c.urls
          /\ pageIds' = pageIds \cup ({extract_idea_id(href)} \ {None})
          /\ repeats' = (repeats \/ extract_idea_id(href) \in pageIds)
  /\ scanned' = scanned + 1
  /\ UNCHANGED <<pc, max_ideas, post_data, summary, itemFails, zeroStreak>>
  /\ UNCHANGED <<pageFailed, pagesDone, lastPause>>
  /\ UNCHANGED <<viewstate, first, before, main_idea_urls, i, products>>
  /\ UNCHANGED fetchVars
  /\ UNCHANGED bodyHist
  /\ UNCHANGED sendHist
  /\ UNCHANGED auxVars

\* the page has no more hrefs: first = ROWS_PER_PAGE after the bootstrap page,
\* the stall test and first += ROWS_PER_PAGE after a paginated one
ScanEnd ==
  /\ pc \in ScanPcs
  /\ IF pc = "boot_scan"
     THEN /\ first' = ROWS_PER_PAGE
          /\ pc' = "loop"
          /\ UNCHANGED <<main_idea_urls, i, products, zeroStreak>>
     ELSE LET added == Len(idea_urls) - before
          IN /\ IF StallStops(added)
                THEN /\ DiscoverReturns(idea_urls)
                     /\ first' = first
                ELSE /\ first' = NextFirst(first)
                     /\ pc' = "loop"
                     /\ UNCHANGED <<main_idea_urls, i, products>>
             /\ zeroStreak' = IF added = 0 THEN zeroStreak + 1 ELSE 0
  /\ scanned' = 0
  /\ pagesDone' = pagesDone + 1
  /\ UNCHANGED <<max_ideas, post_data, summary, itemFails>>
  /\ UNCHANGED <<pageFailed, lastPause>>
  /\ UNCHANGED <<viewstate, seen_ids, idea_urls, before>>
  /\ UNCHANGED fetchVars
  /\ UNCHANGED bodyHist
  /\ UNCHANGED scanHist
  /\ UNCHANGED sendHist
  /\ UNCHANGED auxVars

\* ---- loop heads -----------------------------------------------------------
\* head of the pagination loop: build post_data and POST it, or return
WhileHead ==
  /\ pc = "loop"
  /\ IF LoopContinues(idea_urls, max_ideas)
     THEN /\ lastPause' = PagePause
          /\ post_data' = [first |-> first, rows |-> ROWS_PER_PAGE,
                           vs |-> viewstate]
          /\ StartFetch
          /\ pc' = "page_fetch"
          /\ UNCHANGED <<main_idea_urls, i, products>>
     ELSE /\ DiscoverReturns(idea_urls)
          /\ UNCHANGED <<post_data, lastPause>>
          /\ UNCHANGED fetchVars
  /\ UNCHANGED <<max_ideas, summary, zeroStreak, itemFails>>
  /\ UNCHANGED <<pageFailed, pagesDone>>
  /\ UNCHANGED discVars
  /\ UNCHANGED bodyHist
  /\ UNCHANGED scanHist
  /\ UNCHANGED sendHist
  /\ UNCHANGED auxVars

\* variant: after the last item main goes back to the pagination loop
AfterForPaginates == "loop"

\* after its for loop main writes the summary and is done; it never calls
\* discover_idea_urls again
AfterFor == "done"

\* head of main's for loop: fetch the next URL, or write the summary
ForHead ==
  /\ pc = "for"
  /\ IF i <= Len(main_idea_urls)
     THEN IF extract_idea_id(main_idea_urls[i]) = None
          THEN /\ i' = i + 1
               /\ UNCHANGED <<pc, summary>>
               /\ UNCHANGED fetchVars
          ELSE /\ StartFetch
               /\ pc' = "item_fetch"
               /\ UNCHANGED <<i, summary>>
     ELSE /\ summary' = [count |-> Len(products), products |-> products]
          /\ pc' = AfterFor
          /\ UNCHANGED i
          /\ UNCHANGED fetchVars
  /\ UNCHANGED <<max_ideas, post_data, zeroStreak, main_idea_urls, products,
                 itemFails>>
  /\ UNCHANGED <<pageFailed, pagesDone, lastPause>>
  /\ UNCHANGED discVars
  /\ UNCHANGED bodyHist
  /\ UNCHANGED scanHist
  /\ UNCHANGED sendHist
  /\ UNCHANGED auxVars

Next ==
  \/ FetchOk
  \/ FetchStatus
  \/ FetchExc
  \/ FetchExhausted
  \/ ScanHref
  \/ ScanEnd
  \/ WhileHead
  \/ ForHead

Spec == Init /\ [][Next]_vars

\* ---- the crawl under an external stop signal --------------------------------
\* The source reads no stop flag; the stop signal a run of the script can
\* receive is SIGINT, which raises KeyboardInterrupt in main wherever it is.
\* Neither fetch_with_retry (it catches requests.RequestException only) nor
\* main catches it, so the run ends there and the summary is not written.
Interrupt ==
  /\ pc \notin {"done", "failed", "crashed", "interrupted"}
  /\ pc' = "interrupted"
  /\ UNCHANGED <<max_ideas, post_data, summary, itemFails, zeroStreak>>
  /\ UNCHANGED <<pageFailed, pagesDone, lastPause>>
  /\ UNCHANGED <<main_idea_urls, i, products>>
  /\ UNCHANGED discVars
  /\ UNCHANGED fetchVars
  /\ UNCHANGED bodyHist
  /\ UNCHANGED scanHist
  /\ UNCHANGED sendHist
  /\ UNCHANGED auxVars

NextStop ==
  \/ Next
  \/ Interrupt

SpecStop == Init /\ [][NextStop]_vars

\* ---- collect_links on its own ------------------------------------------------
\* discover_idea_urls calls collect_links once per listing page it receives;
\* here the pages carry every href form the findall pattern admits and the
\* requests between the pages are left out.
\* one iteration of the for loop of collect_links
CollectLinksHref ==
  /\ pagesDone < MaxPages
  /\ scanned < MaxPageLinks
  /\ \E href \in WideHrefs :
       LET c == collect_link(href, seen_ids, idea_urls)
           id == extract_idea_id(href)
           other == /\ firstSeen[id] # NoHref
                    /\ FullUrl(firstSeen[id].href) # FullUrl(href)
       IN /\ seen_ids' = c.seen
          /\ idea_urls' = c.urls
          /\ firstSeen' = IF firstSeen[id] = NoHref
                          THEN [firstSeen EXCEPT
                                  ![id] = [href |-> href, page |-> pagesDone]]
                          ELSE firstSeen
          /\ reseenSame' =
               (reseenSame \/ (other /\ firstSeen[id].page = pagesDone))
          /\ reseenLater' =
               (reseenLater \/ (other /\ firstSeen[id].page < pagesDone))
  /\ scanned' = scanned + 1
  /\ UNCHANGED <<pc, max_ideas, attempt, returned, post_data, viewstate,
                 first, before, main_idea_urls, i, products, summary>>
  /\ UNCHANGED <<nreq, waited, lastStatus, zeroStreak, itemFails, pageFailed,
                 pagesDone, lastPause>>
  /\ UNCHANGED bodyHist
  /\ UNCHANGED scanHist
  /\ UNCHANGED sendHist
  /\ UNCHANGED <<classifyVars, priceVars, imageVars,
                 downloadVars>>

\* the for loop of collect_links is over
CollectLinksReturns ==
  /\ pagesDone < MaxPages
  /\ scanned' = 0
  /\ pagesDone' = pagesDone + 1
  /\ UNCHANGED <<pc, max_ideas, attempt, returned, post_data, viewstate,
                 seen_ids, idea_urls, first, before, main_idea_urls, i,
                 products, summary>>
  /\ UNCHANGED <<nreq, waited, lastStatus, zeroStreak, itemFails, pageFailed,
                 lastPause>>
  /\ UNCHANGED bodyHist
  /\ UNCHANGED scanHist
  /\ UNCHANGED sendHist
  /\ UNCHANGED collectHist
  /\ UNCHANGED <<classifyVars, priceVars, imageVars,
                 downloadVars>>

\* seen_ids = set(), idea_urls = [] and the first page is about to be scanned
CollectInit ==
  /\ CrawlInit
  /\ max_ideas = MaxCap
  /\ AuxIdle

CollectNext ==
  \/ CollectLinksHref
  \/ CollectLinksReturns

SpecCollect == CollectInit /\ [][CollectNext]_vars

\* ---- the end of scrape_idea_page: region and type ---------------------------
\* region = infer_region(slug + " " + title)
InferRegion ==
  /\ cl_pc = "region"
  /\ region' = infer_region(slug \o <<" ">> \o title)
  /\ cl_pc' = "type"
  /\ UNCHANGED <<slug, title, ptype>>
  /\ UNCHANGED <<crawlVars, collectHist, priceVars, imageVars,
                 downloadVars>>

\* ptype = infer_product_type(slug, title)
InferProductType ==
  /\ cl_pc = "type"
  /\ ptype' = infer_product_type(slug, title)
  /\ cl_pc' = "ret"
  /\ UNCHANGED <<slug, title, region>>
  /\ UNCHANGED <<crawlVars, collectHist, priceVars, imageVars,
                 downloadVars>>

\* slug and title have been extracted from the page
ClassifyInit ==
  /\ CrawlInit
  /\ max_ideas = MaxCap
  /\ CollectIdle
  /\ PriceIdle
  /\ ImagesIdle
  /\ DownloadIdle
  /\ slug \in SlugTexts
  /\ title \in TitleTexts
  /\ region = "-"
  /\ ptype = "-"
  /\ cl_pc = "region"

ClassifyNext ==
  \/ InferRegion
  \/ InferProductType

SpecClassify == ClassifyInit /\ [][ClassifyNext]_vars

\* ---- the price loop of scrape_idea_page --------------------------------------
\* one iteration: p = parse_price(pt); if p and p > 50: price = p; break
PriceLoopStep ==
  /\ pr_pc = "loop"
  /\ pt_k <= Len(candidates)
  /\ LET pt == candidates[pt_k]
         p == parse_price(pt)
     IN IF p = "ValueError"
        THEN /\ pr_pc' = "raised"
             /\ UNCHANGED <<pt_k, price>>
        ELSE IF p = "float" /\ Qualifies(PriceMilli(pt))
        THEN /\ price' = PriceMilli(pt)
             /\ pr_pc' = "ret"
             /\ UNCHANGED pt_k
        ELSE /\ pt_k' = pt_k + 1
             /\ UNCHANGED <<price, pr_pc>>
  /\ UNCHANGED candidates
  /\ UNCHANGED <<crawlVars, collectHist, classifyVars, imageVars,
                 downloadVars>>

\* find_all has no more strings: price keeps the value it has
PriceLoopEnd ==
  /\ pr_pc = "loop"
  /\ pt_k > Len(candidates)
  /\ pr_pc' = "ret"
  /\ UNCHANGED <<candidates, pt_k, price>>
  /\ UNCHANGED <<crawlVars, collectHist, classifyVars, imageVars,
                 downloadVars>>

\* price = None, and find_all has returned its strings
PriceInit ==
  /\ CrawlInit
  /\ max_ideas = MaxCap
  /\ CollectIdle
  /\ ClassifyIdle
  /\ ImagesIdle
  /\ DownloadIdle
  /\ candidates \in CandidateLists
  /\ pt_k = 1
  /\ price = NoPrice
  /\ pr_pc = "loop"

PriceNext ==
  \/ PriceLoopStep
  \/ PriceLoopEnd

SpecPrice == PriceInit /\ [][PriceNext]_vars

\* ---- generate_branded_images.py: main -----------------------------------------
\* main up to its for loop: _ensure_fonts (urlretrieve is not guarded), read
\* the input, manifest = {}, skipped = 0, generated = 0
ImgStart ==
  /\ im_pc = "start"
  /\ \E net \in NetOutcomes :
       IF fonts \/ net = "ok"
       THEN /\ fonts' = TRUE
            /\ im_pc' = "loop"
            /\ im_k' = 1
       ELSE /\ im_pc' = "crashed"
            /\ UNCHANGED <<fonts, im_k>>
  /\ requests' = IF fonts THEN requests ELSE requests \cup {"fonts"}
  /\ manifest' = {}
  /\ skipped' = 0
  /\ generated' = 0
  /\ UNCHANGED <<run, im_products, out_dir, cache, logo_file, logo_cache,
                 source_img, manifest_file, written, prevDone>>
  /\ UNCHANGED <<crawlVars, collectHist, classifyVars, priceVars,
                 downloadVars>>

\* an iteration whose out_path exists: manifest entry, skipped += 1, continue
ImgSkip ==
  /\ im_pc = "loop"
  /\ im_k <= Len(im_products)
  /\ OutputExists(im_products[im_k].id, out_dir)
  /\ manifest' = SetEntry(manifest, im_products[im_k].id)
  /\ skipped' = skipped + 1
  /\ im_k' = im_k + 1
  /\ UNCHANGED <<im_pc, run, im_products, out_dir, cache, fonts, logo_file,
                 logo_cache, generated, source_img, manifest_file, requests,
                 written, prevDone>>
  /\ UNCHANGED <<crawlVars, collectHist, classifyVars, priceVars,
                 downloadVars>>

\* an iteration whose out_path does not exist, up to time.sleep: manifest
\* entry, the destination photo, the scraped image when that failed and
\* image_link starts with "http", the placeholder when nothing came
ImgFetch ==
  /\ im_pc = "loop"
  /\ im_k <= Len(im_products)
  /\ ~OutputExists(im_products[im_k].id, out_dir)
  /\ manifest' = SetEntry(manifest, im_products[im_k].id)
  /\ \E net1 \in DownloadOutcomes : \E net2 \in DownloadOutcomes :
       LET product == im_products[im_k]
           photo == download_image(cache[FallbackKey], net1)
           fallback == ~photo.img /\ product.image_link = "http"
           scraped == download_image(cache[product.id], net2)
       IN /\ cache' = [cache EXCEPT
                         ![FallbackKey] = photo.cache,
                         ![product.id] = IF fallback THEN scraped.cache ELSE @]
          /\ requests' =
               requests
                 \cup (IF photo.requested THEN {FallbackKey} ELSE {})
                 \cup (IF fallback /\ scraped.requested
                       THEN {product.id} ELSE {})
          /\ source_img' = IF photo.img THEN "photo"
                           ELSE IF fallback /\ scraped.img THEN "scraped"
                           ELSE "placeholder"
  /\ im_pc' = "compose"
  /\ UNCHANGED <<run, im_products, im_k, out_dir, fonts, logo_file,
                 logo_cache, skipped, generated, manifest_file, written,
                 prevDone>>
  /\ UNCHANGED <<crawlVars, collectHist, classifyVars, priceVars,
                 downloadVars>>

\* compose_branded_image (get_logo: urlretrieve is not guarded), then
\* branded.save(out_path) and generated += 1
ImgCompose ==
  /\ im_pc = "compose"
  /\ \E net \in NetOutcomes :
       IF logo_cache \/ logo_file \/ net = "ok"
       THEN /\ logo_file' = TRUE
            /\ logo_cache' = TRUE
            /\ out_dir' = out_dir \cup {im_products[im_k].id}
            /\ written' = written \cup {im_products[im_k].id}
            /\ generated' = generated + 1
            /\ im_k' = im_k + 1
            /\ im_pc' = "loop"
       ELSE /\ im_pc' = "crashed"
            /\ UNCHANGED <<logo_file, logo_cache, out_dir, written,
                           generated, im_k>>
  /\ requests' = IF logo_cache \/ logo_file THEN requests
                 ELSE requests \cup {"logo"}
  /\ UNCHANGED <<run, im_products, cache, fonts, manifest, skipped,
                 source_img, manifest_file, prevDone>>
  /\ UNCHANGED <<crawlVars, collectHist, classifyVars, priceVars,
                 downloadVars>>

\* after the loop: json.dump(manifest, f)
ImgFinish ==
  /\ im_pc = "loop"
  /\ im_k > Len(im_products)
  /\ manifest_file' = manifest
  /\ im_pc' = "done"
  /\ UNCHANGED <<run, im_products, im_k, out_dir, cache, fonts, logo_file,
                 logo_cache, manifest, skipped, generated, source_img,
                 requests, written, prevDone>>
  /\ UNCHANGED <<crawlVars, collectHist, classifyVars, priceVars,
                 downloadVars>>

\* the script is started again on the same input: a new process has no
\* locals and no _logo_cache, the files stay
ImgRerun ==
  /\ im_pc \in {"done", "crashed"}
  /\ run < MaxRuns
  /\ run' = run + 1
  /\ prevDone' = (im_pc = "done")
  /\ im_pc' = "start"
  /\ im_k' = 0
  /\ logo_cache' = FALSE
  /\ manifest' = {}
  /\ skipped' = 0
  /\ generated' = 0
  /\ source_img' = "-"
  /\ requests' = {}
  /\ written' = {}
  /\ UNCHANGED <<im_products, out_dir, cache, fonts, logo_file,
                 manifest_file>>
  /\ UNCHANGED <<crawlVars, collectHist, classifyVars, priceVars,
                 downloadVars>>

\* the first run, on a fresh checkout with an input file
ImagesInit ==
  /\ CrawlInit
  /\ max_ideas = MaxCap
  /\ CollectIdle
  /\ ClassifyIdle
  /\ PriceIdle
  /\ DownloadIdle
  /\ im_pc = "start"
  /\ run = 1
  /\ im_products \in ProductLists
  /\ im_k = 0
  /\ ImagesFresh

ImagesNext ==
  \/ ImgStart
  \/ ImgSkip
  \/ ImgFetch
  \/ ImgCompose
  \/ ImgFinish
  \/ ImgRerun

SpecImages == ImagesInit /\ [][ImagesNext]_vars

\* ---- download_image on its own --------------------------------------------------
\* a call that finds a cache file Image.open reads: return it
DlFromCache ==
  /\ \E key \in CacheKeys : \E net \in DownloadOutcomes :
       LET d == download_image(cache[key], net)
       IN /\ cache[key] = "good"
          /\ dl_key' = key
          /\ dl_before' = cache[key]
          /\ dl_net' = IF d.requested THEN net ELSE "-"
          /\ dl_ret' = IF d.img THEN "img" ELSE "None"
          /\ dl_requested' = d.requested
          /\ dl_unlinked' = d.unlinked
          /\ cache' = [cache EXCEPT ![key] = d.cache]
  /\ UNCHANGED <<im_pc, run, im_products, im_k, out_dir, fonts, logo_file,
                 logo_cache, manifest, skipped, generated, source_img,
                 manifest_file, requests, written, prevDone>>
  /\ UNCHANGED <<crawlVars, collectHist, classifyVars, priceVars>>

\* a call that finds no cache file, or one Image.open rejects: unlink it if
\* it is there, then the try block of the download
DlFetch ==
  /\ \E key \in CacheKeys : \E net \in DownloadOutcomes :
       LET d == download_image(cache[key], net)
       IN /\ cache[key] # "good"
          /\ dl_key' = key
          /\ dl_before' = cache[key]
          /\ dl_net' = IF d.requested THEN net ELSE "-"
          /\ dl_ret' = IF d.img THEN "img" ELSE "None"
          /\ dl_requested' = d.requested
          /\ dl_unlinked' = d.unlinked
          /\ cache' = [cache EXCEPT ![key] = d.cache]
  /\ UNCHANGED <<im_pc, run, im_products, im_k, out_dir, fonts, logo_file,
                 logo_cache, manifest, skipped, generated, source_img,
                 manifest_file, requests, written, prevDone>>
  /\ UNCHANGED <<crawlVars, collectHist, classifyVars, priceVars>>

\* CACHE_DIR as earlier runs can have left it, before the first call
DownloadInit ==
  /\ CrawlInit
  /\ max_ideas = MaxCap
  /\ CollectIdle
  /\ ClassifyIdle
  /\ PriceIdle
  /\ DownloadIdle
  /\ im_pc = "idle"
  /\ run = 0
  /\ im_products = <<>>
  /\ im_k = 0
  /\ out_dir = {}
  /\ cache \in [CacheKeys -> CacheStates]
  /\ fonts = FALSE
  /\ logo_file = FALSE
  /\ logo_cache = FALSE
  /\ manifest = {}
  /\ skipped = 0
  /\ generated = 0
  /\ source_img = "-"
  /\ manifest_file = NoManifestFile
  /\ requests = {}
  /\ written = {}
  /\ prevDone = FALSE

DownloadNext ==
  \/ DlFromCache
  \/ DlFetch

SpecDownload == DownloadInit /\ [][DownloadNext]_vars

TypeOK ==
  /\ pc \in FetchPcs \cup ScanPcs
            \cup {"loop", "for", "done", "failed", "crashed", "interrupted"}
  /\ scanned \in 0..MaxPageLinks
  /\ attempt \in 0..MAX_RETRIES
  /\ viewstate \in 0..MaxToken
  /\ returned \in {"-", "None", "Response"}
  /\ lastPause \in {NoPause, PagePause, BackoffPause, ItemPause}
  /\ pageFailed \in BOOLEAN
  /\ pagesDone \in Nat

\* ---- properties -----------------------------------------------------------
DiscoveryPcs == {"boot_fetch", "boot_scan", "loop", "page_fetch", "page_scan"}
ExtractionPcs == {"for", "item_fetch", "done", "crashed"}

NoDupIds(recs) ==
  \A a, b \in 1..Len(recs) : a # b => recs[a].id # recs[b].id

RecIds(recs) == {recs[k].id : k \in 1..Len(recs)}

\* C1: no two records collected by main, and no two records of the summary it
\* writes, share an identifier, whatever the pages repeat.
C1_NoDuplicateIds ==
  /\ NoDupIds(products)
  /\ pc = "done" => NoDupIds(summary.products)

C1_Witness ==
  /\ pc = "done"
  /\ repeats
  /\ Len(summary.products) >= 2

\* C2: the held viewstate is the token of the most recent 200 listing
\* response that carried one (the bootstrap page's until a paginated response
\* carries one); a response without a token therefore leaves it unchanged.
C2_TokenIsLatestObserved == viewstate = observed

C2_Witness ==
  /\ pc = "loop"
  /\ lastSent # NoPost
  /\ rotated
  /\ absentSeen
  /\ viewstate # NoToken

\* C3: every POST attempt carries the token that was the most recently
\* observed one at the moment it was sent.
C3_PostCarriesLatestToken ==
  lastSent # NoPost => lastSent.vs = obsAtSend

C3_Witness ==
  /\ pc = "page_fetch"
  /\ rotated
  /\ nreq >= 2
  /\ lastSent.first = 2 * ROWS_PER_PAGE
  /\ lastSent.vs = observed

\* C4: one call of fetch_with_retry issues at most MAX_RETRIES + 1 attempts.
C4_AttemptsBounded == nreq <= MAX_RETRIES + 1

C4_Witness ==
  /\ returned = "None"
  /\ nreq = MAX_RETRIES
  /\ lastStatus = -1

\* C5: when the crawl is done with k failed item fetches out of n queued
\* links, every link was visited, the summary holds n - k records and it
\* reports a skip count of k.
C5_SkipCountReported ==
  pc = "done" =>
    /\ \A k \in 1..Len(main_idea_urls) : main_idea_urls[k] \in visited
    /\ Len(summary.products) = Len(main_idea_urls) - itemFails
    /\ "skipped" \in DOMAIN summary
    /\ summary.skipped = itemFails

\* C6 as claimed: the cap counts records, so a finished crawl either holds
\* max_ideas records or has tried every link discovery found.
C6_CapCountsRecords ==
  pc = "done" =>
    \/ Len(summary.products) = max_ideas
    \/ \A k \in 1..Len(idea_urls) : idea_urls[k] \in visited

\* C6 amended: the cap counts queued links.  Extraction receives the first
\* max_ideas links discovery found (exactly max_ideas when it found that
\* many) and requests no other link; every link it has dealt with gave one
\* record unless its fetch failed, so the summary of a crawl holds the number
\* of queued links less the failed fetches.
C6_CapCountsLinks ==
  pc \in ExtractionPcs =>
    /\ main_idea_urls = Take(idea_urls, max_ideas)
    /\ Len(main_idea_urls) <= max_ideas
    /\ Len(idea_urls) >= max_ideas => Len(main_idea_urls) = max_ideas
    /\ \A u \in visited : \E k \in 1..Len(main_idea_urls) : main_idea_urls[k] = u
    /\ Len(products) = (i - 1) - itemFails
    /\ pc = "done" => summary.count = Len(main_idea_urls) - itemFails

C6_Witness ==
  /\ pc = "done"
  /\ Len(idea_urls) > max_ideas
  /\ itemFails >= 1
  /\ Len(summary.products) < max_ideas

\* C7: a crawl that ended discovery by a stall (cap not reached) and whose
\* item extractions all succeeded outputs exactly the identifiers of the
\* listing pages it received, each once.
C7_ResultIsUnionOfPages ==
  (pc = "done" /\ zeroStreak >= 1 /\ itemFails = 0
     /\ Len(idea_urls) < max_ideas) =>
    /\ RecIds(summary.products) = pageIds
    /\ Len(summary.products) = Cardinality(pageIds)

C7_Witness ==
  /\ pc = "done"
  /\ zeroStreak >= 1
  /\ itemFails = 0
  /\ repeats
  /\ first = 2 * ROWS_PER_PAGE
  /\ Cardinality(pageIds) = 2
  /\ Len(summary.products) = 2

\* C8: discovery never runs more than three consecutive rounds that add no
\* link (two, and at most one further).
C8_FruitlessRoundsBounded == zeroStreak <= 3

C8_Witness ==
  /\ zeroStreak = 1
  /\ pc = "for"
  /\ Len(main_idea_urls) >= 1

\* C9: after a pagination round that added no link, discovery is over, no
\* POST is issued any more and main holds every link accumulated so far.
C9_StallEndsDiscovery ==
  zeroStreak >= 1 =>
    /\ pc \in ExtractionPcs
    /\ postsAfterStall = 0
    /\ main_idea_urls = idea_urls

C9_Witness ==
  /\ zeroStreak = 1
  /\ pc = "item_fetch"
  /\ first = 2 * ROWS_PER_PAGE
  /\ Len(main_idea_urls) = 2

\* C10: an attempt answered with a status other than 200 ends the call at
\* once: None is returned, nothing is slept and the loop does not advance.
C10_StatusNotRetried ==
  [][(nreq' = nreq + 1 /\ lastStatus' \in OtherStatuses) =>
       /\ pc' \notin FetchPcs
       /\ returned' = "None"
       /\ waited' = waited
       /\ attempt' = attempt]_vars

C10_Witness ==
  /\ returned = "None"
  /\ lastStatus \in OtherStatuses
  /\ nreq = 2
  /\ waited = 1

\* an HTTP attempt of the call in progress has just been made
Attempted == nreq' = nreq + 1

\* the statuses a client retries as transient, in the claim's sense
RetryableStatuses == {503}

\* while attempts remain the call does nothing but attempt, and an attempt
\* answered 200 ends the call with that response
AttemptsWhileAllowed ==
  /\ (pc \in FetchPcs /\ nreq < MAX_RETRIES) => Attempted
  /\ (Attempted /\ lastStatus' = 200) =>
       (returned' = "Response" /\ pc' \notin FetchPcs)

\* C11 as claimed: below the maximum attempt count the call goes on to
\* another attempt after a transport failure and after a retryable status
\* (503), and a 200 on any attempt is returned as the result of the call.
C11_RetriesFailuresAndStatuses ==
  [][/\ AttemptsWhileAllowed
     /\ (Attempted /\ nreq' < MAX_RETRIES
          /\ (lastStatus' = -1 \/ lastStatus' \in RetryableStatuses)) =>
         (pc' = pc /\ returned' = "-" /\ attempt' = nreq')]_vars

\* C11 amended: only a transport failure is followed by another attempt; no
\* status is retryable.  Below the maximum attempt count the call goes on to
\* another attempt after a RequestException, any status other than 200 ends
\* it with None, and a 200 on any attempt is returned as its result.
C11_RetriesTransportFailures ==
  [][/\ AttemptsWhileAllowed
     /\ (Attempted /\ nreq' < MAX_RETRIES /\ lastStatus' = -1) =>
         (pc' = pc /\ returned' = "-" /\ attempt' = nreq')
     /\ (Attempted /\ lastStatus' \notin {-1, 200}) =>
         (returned' = "None" /\ pc' \notin FetchPcs)]_vars

C11_Witness ==
  /\ returned = "Response"
  /\ lastStatus = 200
  /\ nreq = MAX_RETRIES
  /\ waited = 3

\* 2^0 + ... + 2^(n - 1): the backoff schedule of n waits
RECURSIVE SumBackoff(_)
SumBackoff(n) == IF n <= 0 THEN 0 ELSE Pow2(n - 1) + SumBackoff(n - 1)

\* C12: when every attempt so far failed with a transport error, the wait
\* after failed attempt k was 2^k, and a call that has ended after n such
\* attempts waited only between them: 2^0 + ... + 2^(n - 2) in all.
C12_WaitsOnlyBetweenAttempts ==
  /\ (lastStatus = -1 /\ returned = "-") => waited = SumBackoff(nreq)
  /\ (lastStatus = -1 /\ returned = "None") => waited = SumBackoff(nreq - 1)

\* C13: when the bootstrap is over and has given no token (its fetch failed
\* or its page had no ViewState input), the crawl has aborted: no pagination
\* request and no item request was ever issued, main holds no link and no
\* record and has written no summary.
C13_BootstrapFailureAborts ==
  (pc # "boot_fetch" /\ observed = NoToken) =>
    /\ pc = "failed"
    /\ lastSent = NoPost
    /\ callOffsets = <<>>
    /\ visited = {}
    /\ main_idea_urls = <<>>
    /\ products = <<>>
    /\ summary = NoSummary

C13_Witness ==
  /\ pc = "failed"
  /\ returned = "Response"
  /\ lastStatus = 200
  /\ observed = NoToken
  /\ nreq = 2

\* C14: once a pagination request has failed, discovery is over and the
\* crawl goes on: main holds every link accumulated before the failure, and
\* the summary of the finished crawl holds their records, one for every link
\* whose own fetch did not fail.
C14_PageFailureKeepsLinks ==
  pageFailed =>
    /\ pc \in ExtractionPcs
    /\ main_idea_urls = idea_urls
    /\ pc = "done" =>
         /\ Len(summary.products) = Len(idea_urls) - itemFails
         /\ \A k \in 1..Len(idea_urls) : idea_urls[k] \in visited
         /\ RecIds(summary.products) \subseteq seen_ids

C14_Witness ==
  /\ pc = "done"
  /\ pageFailed
  /\ first = 2 * ROWS_PER_PAGE
  /\ Len(idea_urls) = 2
  /\ Len(summary.products) = 2

QueuedIds == {extract_idea_id(idea_urls[k]) : k \in 1..Len(idea_urls)}

\* C15: in every state the identifiers of the queued links are pairwise
\* distinct and are exactly the members of the seen set, and no step removes
\* an identifier from the seen set.
C15_DedupCheckAndSet ==
  /\ [](/\ QueuedIds = seen_ids
        /\ Len(idea_urls) = Cardinality(seen_ids)
        /\ \A a, b \in 1..Len(idea_urls) :
             a # b => extract_idea_id(idea_urls[a])
                        # extract_idea_id(idea_urls[b]))
  /\ [][seen_ids \subseteq seen_ids']_vars

C15_Witness ==
  /\ pc = "page_scan"
  /\ scanned = 2
  /\ repeats
  /\ Cardinality(seen_ids) = 2
  /\ Len(idea_urls) = 2

\* C16: the list discovery returns and the records collected and output
\* never exceed max_ideas, and every pagination attempt is issued while fewer
\* than max_ideas links are queued.
C16_CapBoundsLinksAndRequests ==
  /\ [](/\ Len(main_idea_urls) <= max_ideas
        /\ Len(products) <= max_ideas
        /\ pc = "done" => /\ Len(summary.products) <= max_ideas
                          /\ summary.count <= max_ideas)
  /\ [][(Attempted /\ pc = "page_fetch") =>
          Len(idea_urls) < max_ideas]_vars

C16_Witness ==
  /\ pc = "done"
  /\ callOffsets = <<>>
  /\ Len(idea_urls) > max_ideas
  /\ Len(main_idea_urls) = max_ideas
  /\ Len(summary.products) = max_ideas

\* C17: the n-th pagination call is sent when n pages have been consumed,
\* with offset n * ROWS_PER_PAGE and rows = ROWS_PER_PAGE (the attempts of
\* one call repeat its form data); the offsets of the calls strictly
\* increase, so no two calls request the same offset.
C17_OffsetsFollowPages ==
  /\ \A n \in 1..Len(callOffsets) : callOffsets[n] = n * ROWS_PER_PAGE
  /\ \A a, b \in 1..Len(callOffsets) :
       a < b => callOffsets[a] < callOffsets[b]
  /\ lastSent # NoPost =>
       /\ lastSent.rows = ROWS_PER_PAGE
       /\ lastSent.first = callOffsets[Len(callOffsets)]
  /\ (pc = "page_fetch" /\ nreq >= 1) =>
       /\ Len(callOffsets) = pagesDone
       /\ lastSent.first = pagesDone * ROWS_PER_PAGE

C17_Witness ==
  /\ pc = "page_fetch"
  /\ nreq = 2
  /\ pagesDone = 2
  /\ callOffsets = <<ROWS_PER_PAGE, 2 * ROWS_PER_PAGE>>

\* C18 as claimed: every HTTP attempt but the first of the crawl is preceded
\* by a pause, and the first attempt of every item request by the
\* inter-request delay.
C18_PauseBeforeEveryRequest ==
  [][Attempted =>
       /\ (pc # "boot_fetch" \/ nreq >= 1) => lastPause # NoPause
       /\ (pc = "item_fetch" /\ nreq = 0) => lastPause = ItemPause]_vars

\* C18 amended: the pauses lie before every pagination call (PAGE_DELAY),
\* before every retry (the backoff) and after every item request
\* (DELAY_SECONDS), so every item request but the first is preceded by the
\* inter-request delay; the first item request follows the last listing
\* request with no pause of its own.
C18_PausesBetweenRequests ==
  [][Attempted =>
       /\ (pc = "page_fetch" /\ nreq = 0) => lastPause = PagePause
       /\ nreq >= 1 => lastPause = BackoffPause
       /\ (pc = "item_fetch" /\ nreq = 0 /\ visited # {}) =>
            lastPause = ItemPause]_vars

C18_Witness ==
  /\ pc = "item_fetch"
  /\ i = 2
  /\ nreq = 1
  /\ Cardinality(visited) = 2
  /\ callOffsets # <<>>
  /\ lastPause = BackoffPause

\* C19: once the stop signal has been raised the crawl is over with its
\* partial results returned: the summary is written and holds exactly the
\* records collected so far.
C19_StopReturnsPartialResults ==
  pc = "interrupted" =>
    /\ summary # NoSummary
    /\ summary.products = products
    /\ summary.count = Len(products)

\* C20: whatever an answered item request returns, also a page extraction
\* cannot interpret, main goes on with the next link and keeps the records
\* it has collected.
C20_ParseFailureSkipsItem ==
  [][(Attempted /\ pc = "item_fetch" /\ lastStatus' = 200) =>
       /\ pc' = "for"
       /\ i' = i + 1
       /\ Len(products') >= Len(products)
       /\ SubSeq(products', 1, Len(products)) = products]_vars

\* the last call of fetch_with_retry has ended without a response
CallFailed == returned \notin {"-", "Response"}

\* C21 as claimed: the value a call returns after its attempts ran out is
\* not the value a call returns after a status rejection, and conversely.
C21_FailureKindsDistinct ==
  /\ (CallFailed /\ lastStatus = -1) => returned # FailureValue("status")
  /\ (CallFailed /\ lastStatus \in OtherStatuses) =>
       returned # FailureValue("exhausted")

\* C21 amended: a call that ends without a response returns None whatever
\* the failure kind, and a response exactly when the last attempt was
\* answered 200: the result tells success from failure and nothing more.
C21_FailureIsNone ==
  /\ CallFailed => (returned = "None" /\ lastStatus \in OtherStatuses \cup {-1})
  /\ returned = "Response" => lastStatus = 200
  /\ (returned # "-" /\ lastStatus = 200) => returned = "Response"

C21_Witness ==
  /\ pageFailed
  /\ returned = "None"
  /\ lastStatus = -1
  /\ nreq = MAX_RETRIES
  /\ pc = "for"

\* position of the first link of urls whose identifier is id, 0 when none
RECURSIVE PosFrom(_, _, _)
PosFrom(urls, id, k) ==
  IF k > Len(urls) THEN 0
  ELSE IF extract_idea_id(urls[k]) = id THEN k
  ELSE PosFrom(urls, id, k + 1)

\* recs lists records of links of urls in the order of urls
InQueueOrder(recs, urls) ==
  /\ \A a \in 1..Len(recs) : PosFrom(urls, recs[a].id, 1) >= 1
  /\ \A a, b \in 1..Len(recs) :
       a < b => PosFrom(urls, recs[a].id, 1) < PosFrom(urls, recs[b].id, 1)

\* C27: the records main has collected, and those of the summary it writes,
\* are records of queued links in the order the links were queued: a
\* subsequence of the queue, skipped items left out.
C27_RecordsInDiscoveryOrder ==
  /\ InQueueOrder(products, idea_urls)
  /\ InQueueOrder(products, main_idea_urls)
  /\ pc = "done" => InQueueOrder(summary.products, idea_urls)

C27_Witness ==
  /\ pc = "done"
  /\ Len(summary.products) = 2
  /\ Len(callOffsets) = 2
  /\ itemFails = 0

\* C28: once an item request has been issued discovery is over for good:
\* main is in its extraction phase with the list discovery returned, and no
\* step issues a listing request, consumes a page or changes the token, the
\* seen set or the queued links.
C28_PhasesSeparate ==
  /\ [](visited # {} =>
          /\ pc \in ExtractionPcs
          /\ main_idea_urls = Take(idea_urls, max_ideas))
  /\ [][visited # {} =>
          /\ ~(Attempted /\ pc \in {"boot_fetch", "page_fetch"})
          /\ callOffsets' = callOffsets
          /\ pagesDone' = pagesDone
          /\ observed' = observed
          /\ viewstate' = viewstate
          /\ seen_ids' = seen_ids
          /\ idea_urls' = idea_urls]_vars

C28_Witness ==
  /\ pc = "item_fetch"
  /\ i = 2
  /\ Cardinality(visited) = 2
  /\ rotated
  /\ Cardinality(seen_ids) = 2

\* C29: from the moment a pagination request is built until its call ends
\* without a response, no step changes the held token, the seen set, the
\* queued links or the offset, and main receives the queued links as they
\* were.
C29_FailedPageChangesNothing ==
  [][((pc = "loop" /\ pc' = "page_fetch")
        \/ (pc = "page_fetch" /\ returned' # "Response")) =>
       /\ viewstate' = viewstate
       /\ seen_ids' = seen_ids
       /\ idea_urls' = idea_urls
       /\ first' = first
       /\ (pageFailed' /\ ~pageFailed) => main_idea_urls' = idea_urls]_vars

C29_Witness ==
  /\ pageFailed
  /\ pc = "for"
  /\ lastStatus \in OtherStatuses
  /\ nreq = 2
  /\ rotated
  /\ first = 2 * ROWS_PER_PAGE

\* main has returned or has been ended by an exception
Terminated == pc \in {"done", "failed", "crashed"}

\* steps one item takes at most: the head of the for loop, MAX_RETRIES
\* attempts and the return of the call
ItemSteps == MAX_RETRIES + 2

\* steps one pagination round takes at most: the head of the while loop, the
\* call, the hrefs of the page and the end of the scan
RoundSteps == MAX_RETRIES + MaxPageLinks + 3

\* steps extraction takes at most from the head of the for loop
ExtractionSteps(n) == n * ItemSteps + 1

\* rounds the pagination loop can still start with n links queued
RoundsLeft(n) == IF n < max_ideas THEN max_ideas - n ELSE 0

\* an upper bound of the steps the crawl can still take
StepsLeft ==
  LET ext == ExtractionSteps(max_ideas) + 1
      top == max_ideas * RoundSteps + ext
  IN CASE pc = "boot_fetch" ->
            top + MaxPageLinks + 2 + (MAX_RETRIES - attempt) + 1
       [] pc = "boot_scan" -> top + (MaxPageLinks - scanned) + 1
       [] pc = "loop" -> RoundsLeft(Len(idea_urls)) * RoundSteps + ext
       [] pc = "page_fetch" ->
            (RoundsLeft(Len(idea_urls)) - 1) * RoundSteps + ext
              + MaxPageLinks + 2 + (MAX_RETRIES - attempt)
       [] pc = "page_scan" ->
            (RoundsLeft(before) - 1) * RoundSteps + ext
              + (MaxPageLinks - scanned) + 1
       [] pc = "for" -> ExtractionSteps(Len(main_idea_urls) - i + 1)
       [] pc = "item_fetch" ->
            ExtractionSteps(Len(main_idea_urls) - i) + (MAX_RETRIES - attempt)
              + 1
       [] OTHER -> 0

\* C26: every crawl ends, whatever the server answers.  A pagination round
\* that does not end discovery has added a link, discovery makes at most
\* max_ideas pagination calls, extraction makes one call of at most
\* MAX_RETRIES attempts for a link it has not requested before, and every
\* step of the crawl lowers a bound of the steps that remain, which is
\* never negative and is zero only when main has ended.
C26_CrawlTerminates ==
  /\ [](/\ Len(callOffsets) <= max_ideas
        /\ nreq <= MAX_RETRIES
        /\ StepsLeft >= 0
        /\ StepsLeft = 0 <=> Terminated)
  /\ [][/\ (pc = "page_scan" /\ pc' = "loop") => Len(idea_urls') > before
        /\ (Attempted /\ pc = "item_fetch" /\ nreq = 0) =>
             main_idea_urls[i] \notin visited
        /\ StepsLeft' < StepsLeft]_vars

C26_Witness ==
  /\ pc = "done"
  /\ Len(callOffsets) = max_ideas
  /\ max_ideas = MaxCap
  /\ Len(summary.products) = 2
\* a is an initial part of b
IsPrefix(a, b) == Len(a) <= Len(b) /\ SubSeq(b, 1, Len(a)) = a

\* C25: whatever forms an identifier is served in (absolute or relative, /en/
\* or /es/, any slug, on one page or on several), the link queued for it is
\* the first href scanned for it, made absolute; the queue holds exactly the
\* identifiers scanned so far and a step only appends to it.
C25_FirstUrlKept ==
  /\ [](/\ \A k \in 1..Len(idea_urls) :
             LET id == extract_idea_id(idea_urls[k])
             IN /\ id \in Ids
                /\ firstSeen[id] # NoHref
                /\ idea_urls[k] = FullUrl(firstSeen[id].href)
        /\ \A id \in Ids :
             firstSeen[id] # NoHref =>
               \E k \in 1..Len(idea_urls) : extract_idea_id(idea_urls[k]) = id)
  /\ [][IsPrefix(idea_urls, idea_urls')]_vars

C25_Witness ==
  /\ reseenSame
  /\ reseenLater
  /\ Len(idea_urls) = 2
  /\ pagesDone = MaxPages
  /\ \E id \in Ids : firstSeen[id] # NoHref /\ firstSeen[id].href[1] = ""
\* the text infer_region and infer_product_type search
ClassifiedText == LowerText(slug \o <<" ">> \o title)

\* the entries of the table whose keyword occurs in the text
Matching ==
  {k \in 1..Len(REGION_KEYWORDS) :
     Occurs(REGION_KEYWORDS[k].keyword, ClassifiedText)}

\* C22: the region is that of the first entry of REGION_KEYWORDS, in table
\* order, whose keyword occurs in the lower-cased slug-plus-title text, and
\* "Internacional" when no keyword occurs; no later entry overrides it.
C22_FirstTableEntryWins ==
  cl_pc \in {"type", "ret"} =>
    IF Matching = {} THEN region = "Internacional"
    ELSE \E k \in Matching :
           /\ \A j \in Matching : k <= j
           /\ region = REGION_KEYWORDS[k].region

\* two entries of different regions match, and the one later in the table
\* stands earlier in the text
C22_Witness ==
  /\ cl_pc = "ret"
  /\ \E j \in Matching : \E k \in Matching :
       /\ j < k
       /\ REGION_KEYWORDS[j].region # REGION_KEYWORDS[k].region
       /\ region = REGION_KEYWORDS[j].region
       /\ \A m \in Matching : j <= m
       /\ \E a \in 1..Len(ClassifiedText) : \E b \in 1..Len(ClassifiedText) :
            /\ a < b
            /\ SubSeq(ClassifiedText, a,
                      a + Len(REGION_KEYWORDS[k].keyword) - 1)
                 = REGION_KEYWORDS[k].keyword
            /\ SubSeq(ClassifiedText, b,
                      b + Len(REGION_KEYWORDS[j].keyword) - 1)
                 = REGION_KEYWORDS[j].keyword

\* the words of a text: its maximal runs of word characters
WordsOf(text) ==
  {SubSeq(text, r[1], r[2]) :
     r \in {q \in (1..Len(text)) \X (1..Len(text)) :
              /\ q[1] <= q[2]
              /\ \A n \in q[1]..q[2] : text[n] \in WordChars
              /\ (q[1] = 1 \/ text[q[1] - 1] \notin WordChars)
              /\ (q[2] = Len(text) \/ text[q[2] + 1] \notin WordChars)}}

HasFlightWord == WordsOf(ClassifiedText) \cap FlightWords # {}
HasHotelWord == WordsOf(ClassifiedText) \cap HotelWords # {}

\* C24: for every slug and title the type is one of "Vuelo", "Hotel" and
\* "Paquete": "Vuelo" when a flight keyword is a word of the text, whether or
\* not a hotel keyword is one too, otherwise "Hotel" when a hotel keyword is
\* a word of the text, otherwise "Paquete".
C24_TypeByKeywordPriority ==
  cl_pc = "ret" =>
    /\ ptype \in {"Vuelo", "Hotel", "Paquete"}
    /\ HasFlightWord => ptype = "Vuelo"
    /\ (~HasFlightWord /\ HasHotelWord) => ptype = "Hotel"
    /\ (~HasFlightWord /\ ~HasHotelWord) => ptype = "Paquete"

\* a flight keyword and a hotel keyword are both words of the text, next to
\* a word that only contains a flight keyword
C24_Witness ==
  /\ cl_pc = "ret"
  /\ HasFlightWord
  /\ HasHotelWord
  /\ ptype = "Vuelo"
  /\ <<"v", "u", "e", "l", "o", "s">> \in WordsOf(ClassifiedText)
\* the number a candidate denotes, in thousandths; NoPrice when it denotes none
CandidateValue(pt) ==
  IF parse_price(pt) = "float" THEN PriceMilli(pt) ELSE NoPrice

\* the candidates whose value exceeds the floor
QualifyingAt ==
  {k \in 1..Len(candidates) :
     CandidateValue(candidates[k]) > PRICE_FLOOR * 1000}

\* the price loop has returned a price that is the first qualifying one
FirstQualifyingKept ==
  IF QualifyingAt = {} THEN price = NoPrice
  ELSE \E k \in QualifyingAt :
         /\ \A j \in QualifyingAt : k <= j
         /\ price = CandidateValue(candidates[k])

\* C23: the price loop always ends without an error, and the price it leaves
\* is the value of the first candidate, in document order, whose value is
\* above PRICE_FLOOR; candidates at or below it are passed over, and with no
\* such candidate the record has no price.
C23_FirstQualifyingPrice ==
  /\ pr_pc # "raised"
  /\ pr_pc = "ret" => FirstQualifyingKept
InputIds == {im_products[k].id : k \in 1..Len(im_products)}

\* C30: an iteration that finds the output image of its product changes no
\* file and asks the network for nothing; a run that ends has written a
\* manifest with exactly one entry per input product and has skipped or
\* generated each of them; a run that follows a run that ended, on the same
\* input, generates and downloads nothing.
C30_ImagesIdempotent ==
  /\ [](im_pc = "done" =>
          /\ manifest_file = manifest
          /\ {e.id : e \in manifest_file} = InputIds
          /\ Cardinality(manifest_file) = Len(im_products)
          /\ skipped + generated = Len(im_products)
          /\ InputIds \subseteq out_dir)
  /\ []((im_pc = "done" /\ prevDone) =>
          /\ generated = 0
          /\ skipped = Len(im_products)
          /\ written = {}
          /\ requests = {})
  /\ [][(/\ im_pc = "loop"
         /\ im_k <= Len(im_products)
         /\ im_products[im_k].id \in out_dir) =>
          /\ out_dir' = out_dir
          /\ written' = written
          /\ cache' = cache
          /\ requests' = requests
          /\ generated' = generated
          /\ skipped' = skipped + 1
          /\ im_products[im_k].id \in {e.id : e \in manifest'}]_vars

C30_Witness ==
  /\ im_pc = "done"
  /\ prevDone
  /\ run = 2
  /\ Len(im_products) = 2
  /\ skipped = 2
  /\ Cardinality(manifest_file) = 2
\* the request was made and brought no image: urlopen or read raised, or
\* the data was not an image
DownloadFailed == dl_requested /\ dl_net \in {"fail", "not_image"}

\* C31: a call that finds a readable cache file for its key makes no request
\* and returns the image; a call that finds an unreadable one unlinks it and
\* makes the request; a call whose download fails returns None and leaves
\* no cache file for the key, a call whose download succeeds returns the
\* image and leaves a readable one; no call touches the file of another key.
C31_CacheBeforeNetwork ==
  /\ [](dl_ret # "-" =>
          /\ dl_before = "good" =>
               /\ ~dl_requested
               /\ ~dl_unlinked
               /\ dl_ret = "img"
               /\ cache[dl_key] = "good"
          /\ dl_before = "corrupt" => (dl_unlinked /\ dl_requested)
          /\ dl_before = "absent" => (~dl_unlinked /\ dl_requested)
          /\ DownloadFailed => (dl_ret = "None" /\ cache[dl_key] = "absent")
          /\ (dl_requested /\ dl_net = "ok") =>
               (dl_ret = "img" /\ cache[dl_key] = "good")
          /\ dl_ret = "img" => cache[dl_key] = "good")
  /\ [][\A key \in CacheKeys : key # dl_key' => cache'[key] = cache[key]]_vars

\* an unreadable cache file met a failed download while the file of another
\* key stayed readable
C31_Witness ==
  /\ dl_before = "corrupt"
  /\ dl_net = "fail"
  /\ dl_ret = "None"
  /\ dl_unlinked
  /\ cache[dl_key] = "absent"
  /\ \E key \in CacheKeys : key # dl_key /\ cache[key] = "good"
====
